---- MODULE Spec2Model ----
(***************************************************************************)
(* Model of mdsapt.reader.InputReader (src/mdsapt/reader.py): the YAML     *)
(* run-input reader and its validators.                                    *)
(*                                                                         *)
(* One reader object is modelled.  Its state is the private mode field     *)
(* _input_type and the descriptor fields written by _save_params.  Every   *)
(* method of the class is an operator translated from its body; the        *)
(* actions are calls of the methods on the object, on one document and one *)
(* environment (file system + structure provider) drawn in Init.           *)
(*                                                                         *)
(* A raised exception is a record: kind is the Python exception class that *)
(* reaches the caller, site the place that raised it, key / id the         *)
(* offending key or residue id, by the pipeline step that raised it.       *)
(*                                                                         *)
(* The method bodies are modelled as written.  (The annotation             *)
(* Optional[List[int, int]] on line 188 is evaluated when the class body   *)
(* runs on interpreters that evaluate annotations eagerly; the model       *)
(* describes the methods themselves.)                                      *)
(***************************************************************************)
EXTENDS Integers, Sequences, FiniteSets, TLC

\* ------------------------------------------------------------------ bounds
MaxSel == 2
MaxPairs == 2
MaxT == 2
MaxFrames == 3
MaxDir == 1

\* ------------------------------------------------------- document universe
TopKeys ==
    {"topology_path", "topology_directory", "trajectory_paths",
     "selection_resid_num", "int_pairs", "trajectory_settings",
     "system_settings", "opt_settings", "sapt_settings"}

SysKeys == {"ncpus", "memory", "time"}
TrjSetKeys == {"start", "step", "stop"}
OptKeys == {"pH"}
SaptKeys == {"method", "basis", "settings", "save_psi4_output"}

\* the residue ids a selection list may declare (a pair may also name 99)
DeclIds == {10, 20}

\* key order of the two extraction blocks
TrjExtractOrder ==
    <<"topology_path", "trajectory_paths", "selection_resid_num", "int_pairs",
      "trajectory_settings", "system_settings", "opt_settings", "sapt_settings">>

DockExtractOrder ==
    <<"topology_directory", "selection_resid_num", "int_pairs",
      "system_settings", "opt_settings", "sapt_settings">>

Range(s) == {s[i] : i \in 1..Len(s)}

RECURSIVE SeqsUpTo(_, _)
SeqsUpTo(S, n) ==
    IF n = 0 THEN {<<>>}
    ELSE LET shorter == SeqsUpTo(S, n - 1)
         IN  shorter \cup {Append(s, x) : s \in {t \in shorter : Len(t) = n - 1}, x \in S}

\* ---------------------------------------------------------------- outcomes
\* ids is the set holding the offending residue id, empty when there is none
OK == [kind |-> "ok", site |-> "", key |-> "", ids |-> {}, by |-> ""]

Raise(kind, site, key, ids, by) ==
    [kind |-> kind, site |-> site, key |-> key, ids |-> ids, by |-> by]

Failed(r) == r.kind # "ok"

\* first key of the sequence order (from position i on) that is not in present;
\* "" when every key is there: the order in which a block of dict lookups
\* raises KeyError
RECURSIVE FirstMissing(_, _, _)
FirstMissing(order, present, i) ==
    IF i > Len(order) THEN ""
    ELSE IF order[i] \notin present THEN order[i]
    ELSE FirstMissing(order, present, i + 1)

\* ------------------------------------------------------------- _check_type
\* Returns the outcome and the value of self._input_type afterwards.  The
\* docking branch assigns to the read-only property input_type, which raises
\* AttributeError and leaves _input_type as it was.
_check_type(self_type, yaml_dict) ==
    IF "topology_directory" \in yaml_dict.keys
    THEN [out |-> Raise("AttributeError", "SetInputType", "", {}, "detect"),
          type |-> self_type]
    ELSE IF "topology_path" \in yaml_dict.keys
    THEN [out |-> OK, type |-> "trajectory"]
    ELSE [out |-> Raise("InputError", "ModeDetection", "", {}, "detect"),
          type |-> self_type]

\* the property getter: AttributeError while _input_type was never assigned
input_type(self_type) ==
    IF self_type = "unset"
    THEN [out |-> Raise("AttributeError", "GetInputType", "", {}, "dispatch"),
          val |-> self_type]
    ELSE [out |-> OK, val |-> self_type]

\* -------------------------------------------------------- _check_trj_files
\* The except clause names "NoDataError or InputError or ValueError", which
\* is NoDataError alone: the InputError of a missing file passes through as
\* it is, a ValueError of the structure provider passes through uncaught.
_check_trj_files(world) ==
    CASE world.load = "missing" ->
            [out |-> Raise("InputError", "StructureLoad", "", {}, "load")]
      [] world.load = "nodata" ->
            [out |-> Raise("InputError", "StructureLoad", "", {}, "load")]
      [] world.load = "valueerror" ->
            [out |-> Raise("ValueError", "StructureLoad", "", {}, "load")]
      [] OTHER -> [out |-> OK]

\* the structure handle: frame count and the residue ids whose query fails
Universe(world) == [frames |-> world.frames, badSel |-> world.badSel]

\* ------------------------------------------------------- _check_selections
\* A selection loop that queries every selection and reports the first
\* failure afterwards.
RECURSIVE SelLoopAllFrom(_, _, _, _, _)
SelLoopAllFrom(universe, ag_sel, i, queried, first) ==
    IF i > Len(ag_sel)
    THEN [out |-> IF first = {} THEN OK
                  ELSE Raise("InputError", "Selection", "", first, "selections"),
          queried |-> queried]
    ELSE SelLoopAllFrom(universe, ag_sel, i + 1, Append(queried, ag_sel[i]),
                        IF first = {} /\ ag_sel[i] \in universe.badSel
                        THEN {ag_sel[i]} ELSE first)

SelLoopAll(universe, ag_sel, i, queried) ==
    SelLoopAllFrom(universe, ag_sel, i, queried, {})

\* The selection loop, from position i on: each query is issued inside the
\* loop and a failing one raises at once.
RECURSIVE SelLoop(_, _, _, _)
SelLoop(universe, ag_sel, i, queried) ==
    IF i > Len(ag_sel) THEN [out |-> OK, queried |-> queried]
    ELSE IF ag_sel[i] \in universe.badSel
    THEN [out |-> Raise("InputError", "Selection", "", {ag_sel[i]}, "selections"),
          queried |-> Append(queried, ag_sel[i])]
    ELSE SelLoop(universe, ag_sel, i + 1, Append(queried, ag_sel[i]))

\* one pair against the selection list
CheckPair(ag_sel, pair) ==
    IF Len(pair) # 2
    THEN Raise("InputError", "PairArity", "", {}, "selections")
    ELSE LET found0 == \E n \in 1..Len(ag_sel) : pair[1] = ag_sel[n]
             found1 == \E n \in 1..Len(ag_sel) : pair[2] = ag_sel[n]
         IN  IF ~found0
             THEN Raise("InputError", "PairMember", "", {pair[1]}, "selections")
             ELSE IF ~found1
             THEN Raise("InputError", "PairMember", "", {pair[2]}, "selections")
             ELSE OK

\* The pair loop, from position j on; checked counts the pairs examined.
RECURSIVE PairLoop(_, _, _)
PairLoop(ag_sel, pairs, j) ==
    IF j > Len(pairs) THEN [out |-> OK, checked |-> j - 1]
    ELSE LET r == CheckPair(ag_sel, pairs[j])
         IN  IF Failed(r) THEN [out |-> r, checked |-> j]
             ELSE PairLoop(ag_sel, pairs, j + 1)

\* ag_pair is [none |-> TRUE] for Python's None, else [none |-> FALSE, val |-> pairs]
_check_selections(universe, ag_sel, ag_pair) ==
    LET s == SelLoop(universe, ag_sel, 1, <<>>)
    IN  IF Failed(s.out)
        THEN [out |-> s.out, queried |-> s.queried, pairsChecked |-> 0]
        ELSE IF ag_pair.none
        THEN [out |-> OK, queried |-> s.queried, pairsChecked |-> 0]
        ELSE LET p == PairLoop(ag_sel, ag_pair.val, 1)
             IN  [out |-> p.out, queried |-> s.queried, pairsChecked |-> p.checked]

\* ------------------------------------------------------ _check_sys_settings
\* The bare except formats the unbound name err: a missing key ends in
\* NameError, not InputError.
_check_sys_settings(sys_settings) ==
    LET k == FirstMissing(<<"ncpus", "memory", "time">>, sys_settings, 1)
    IN  IF k # ""
        THEN Raise("NameError", "MissingKey", k, {}, "sys_settings")
        ELSE OK

\* ------------------------------------------------------ _check_trj_settings
\* The validator without its step == 0 test.
_check_trj_settings_NoStepZero(universe, trj_settings) ==
    LET k == FirstMissing(<<"start", "step", "stop">>, trj_settings.keys, 1)
    IN  IF k # ""
        THEN Raise("NameError", "MissingKey", k, {}, "trj_settings")
        ELSE IF trj_settings.start >= trj_settings.stop
        THEN Raise("InputError", "InvalidRange", "", {}, "trj_settings")
        ELSE IF trj_settings.step >= trj_settings.stop
        THEN Raise("InputError", "StepRange", "", {}, "trj_settings")
        ELSE IF universe.frames < trj_settings.stop
        THEN Raise("InputError", "OutOfBounds", "", {}, "trj_settings")
        ELSE OK

\* The validator with start > stop in place of start >= stop.
_check_trj_settings_StrictStart(universe, trj_settings) ==
    LET k == FirstMissing(<<"start", "step", "stop">>, trj_settings.keys, 1)
    IN  IF k # ""
        THEN Raise("NameError", "MissingKey", k, {}, "trj_settings")
        ELSE IF trj_settings.start > trj_settings.stop
        THEN Raise("InputError", "InvalidRange", "", {}, "trj_settings")
        ELSE IF trj_settings.step >= trj_settings.stop
        THEN Raise("InputError", "StepRange", "", {}, "trj_settings")
        ELSE IF trj_settings.step = 0
        THEN Raise("InputError", "StepZero", "", {}, "trj_settings")
        ELSE IF universe.frames < trj_settings.stop
        THEN Raise("InputError", "OutOfBounds", "", {}, "trj_settings")
        ELSE OK

\* Same unbound err in the KeyError handler.
_check_trj_settings(universe, trj_settings) ==
    LET k == FirstMissing(<<"start", "step", "stop">>, trj_settings.keys, 1)
    IN  IF k # ""
        THEN Raise("NameError", "MissingKey", k, {}, "trj_settings")
        ELSE IF trj_settings.start >= trj_settings.stop
        THEN Raise("InputError", "InvalidRange", "", {}, "trj_settings")
        ELSE IF trj_settings.step >= trj_settings.stop
        THEN Raise("InputError", "StepRange", "", {}, "trj_settings")
        ELSE IF trj_settings.step = 0
        THEN Raise("InputError", "StepZero", "", {}, "trj_settings")
        ELSE IF universe.frames < trj_settings.stop
        THEN Raise("InputError", "OutOfBounds", "", {}, "trj_settings")
        ELSE OK

\* ------------------------------------------------- _check_opt_sapt_settings
\* The second parameter is named sapt_setting; the body reads the unbound
\* name sapt_settings.  With pH missing the KeyError handler raises
\* InputError; with pH present the next line raises NameError, which the
\* handler does not catch.  No path returns normally.
_check_opt_sapt_settings(opt_settings, sapt_setting) ==
    IF "pH" \notin opt_settings
    THEN Raise("InputError", "MissingKey", "pH", {}, "opt_sapt_settings")
    ELSE Raise("NameError", "UnboundSaptSettings", "", {}, "opt_sapt_settings")

\* -------------------------------------------------------- _check_trj_inputs
\* The orchestrator with the trajectory-settings validator run before the
\* system-settings validator.
_check_trj_inputs_TrjBeforeSys(yaml_dict, world) ==
    LET k == FirstMissing(TrjExtractOrder, yaml_dict.keys, 1)
        f == _check_trj_files(world)
        unv == Universe(world)
        s == _check_selections(unv, yaml_dict.sel, yaml_dict.pairs)
        y == _check_sys_settings(yaml_dict.sysKeys)
        t == _check_trj_settings(unv, yaml_dict.trj)
        o == _check_opt_sapt_settings(yaml_dict.optKeys, yaml_dict.saptKeys)
        res(out, calls, q, pc) ==
            [out |-> out, calls |-> calls, queried |-> q, pairsChecked |-> pc]
    IN  IF k # ""
        THEN res(Raise("InputError", "MissingKey", k, {}, "extract"),
                 <<"extract">>, <<>>, 0)
        ELSE IF Failed(f.out)
        THEN res(f.out, <<"extract", "load">>, <<>>, 0)
        ELSE IF Failed(s.out)
        THEN res(s.out, <<"extract", "load", "selections">>,
                 s.queried, s.pairsChecked)
        ELSE IF Failed(t)
        THEN res(t, <<"extract", "load", "selections", "trj_settings">>,
                 s.queried, s.pairsChecked)
        ELSE IF Failed(y)
        THEN res(y, <<"extract", "load", "selections", "trj_settings",
                      "sys_settings">>,
                 s.queried, s.pairsChecked)
        ELSE res(o, <<"extract", "load", "selections", "trj_settings",
                      "sys_settings", "opt_sapt_settings">>,
                 s.queried, s.pairsChecked)

\* calls lists the pipeline steps in the order they were invoked.
_check_trj_inputs(yaml_dict, world) ==
    LET k == FirstMissing(TrjExtractOrder, yaml_dict.keys, 1)
        f == _check_trj_files(world)
        unv == Universe(world)
        s == _check_selections(unv, yaml_dict.sel, yaml_dict.pairs)
        y == _check_sys_settings(yaml_dict.sysKeys)
        t == _check_trj_settings(unv, yaml_dict.trj)
        o == _check_opt_sapt_settings(yaml_dict.optKeys, yaml_dict.saptKeys)
        res(out, calls, q, pc) ==
            [out |-> out, calls |-> calls, queried |-> q, pairsChecked |-> pc]
    IN  IF k # ""
        THEN res(Raise("InputError", "MissingKey", k, {}, "extract"),
                 <<"extract">>, <<>>, 0)
        ELSE IF Failed(f.out)
        THEN res(f.out, <<"extract", "load">>, <<>>, 0)
        ELSE IF Failed(s.out)
        THEN res(s.out, <<"extract", "load", "selections">>,
                 s.queried, s.pairsChecked)
        ELSE IF Failed(y)
        THEN res(y, <<"extract", "load", "selections", "sys_settings">>,
                 s.queried, s.pairsChecked)
        ELSE IF Failed(t)
        THEN res(t, <<"extract", "load", "selections", "sys_settings",
                      "trj_settings">>,
                 s.queried, s.pairsChecked)
        ELSE res(o, <<"extract", "load", "selections", "sys_settings",
                      "trj_settings", "opt_sapt_settings">>,
                 s.queried, s.pairsChecked)

\* ---------------------------------------------------- _check_docking_inputs
\* _check_top_files is declared without self and without @staticmethod, so the
\* bound call self._check_top_files(path) of the first loop iteration raises
\* TypeError before any structure is loaded or any selection is checked (the
\* two-argument call of _check_selections on the next line is never reached).
_check_docking_inputs(yaml_dict, world) ==
    LET k == FirstMissing(DockExtractOrder, yaml_dict.keys, 1)
        y == _check_sys_settings(yaml_dict.sysKeys)
        o == _check_opt_sapt_settings(yaml_dict.optKeys, yaml_dict.saptKeys)
        res(out, calls) ==
            [out |-> out, calls |-> calls, queried |-> <<>>, pairsChecked |-> 0]
    IN  IF k # ""
        THEN res(Raise("InputError", "MissingKey", k, {}, "extract"), <<"extract">>)
        ELSE IF Len(yaml_dict.dir) > 0
        THEN res(Raise("TypeError", "CheckTopFilesCall", "", {}, "load"),
                 <<"extract", "load">>)
        ELSE IF Failed(y)
        THEN res(y, <<"extract", "sys_settings">>)
        ELSE res(o, <<"extract", "sys_settings", "opt_sapt_settings">>)

\* ------------------------------------------------------------ _check_inputs
_check_inputs(self_type, yaml_dict, world) ==
    LET g == input_type(self_type)
    IN  IF Failed(g.out)
        THEN [out |-> g.out, calls |-> <<>>, queried |-> <<>>, pairsChecked |-> 0]
        ELSE IF g.val = "trajectory" THEN _check_trj_inputs(yaml_dict, world)
        ELSE IF g.val = "docking" THEN _check_docking_inputs(yaml_dict, world)
        ELSE [out |-> Raise("InputError", "InvalidType", "", {}, "dispatch"),
              calls |-> <<>>, queried |-> <<>>, pairsChecked |-> 0]

\* ------------------------------------------------------------- _save_params
\* the assignments in source order: <<field, top-level key, nested key>>
SaveOrder ==
    << <<"top_path", "topology_path", "">>,
       <<"trj_path", "trajectory_paths", "">>,
       <<"ag_sel", "selection_resid_num", "">>,
       <<"ag_pair", "int_pairs", "">>,
       <<"trj_settings", "trajectory_settings", "">>,
       <<"sys_settings", "system_settings", "">>,
       <<"opt_settings", "opt_settings", "">>,
       <<"sapt_settings", "sapt_settings", "">>,
       <<"sapt_method", "sapt_settings", "method">>,
       <<"sapt_basis", "sapt_settings", "basis">>,
       <<"sapt_out", "sapt_settings", "save_psi4_output">>,
       <<"start", "trajectory_settings", "start">>,
       <<"stop", "trajectory_settings", "stop">>,
       <<"step", "trajectory_settings", "step">>,
       <<"pH", "opt_settings", "pH">>,
       <<"ncpus", "system_settings", "ncpus">>,
       <<"memory", "system_settings", "memory">>,
       <<"walltime", "system_settings", "time">> >>

FieldNames == {SaveOrder[i][1] : i \in 1..Len(SaveOrder)}

\* the keys of a settings block of the document
SubKeys(yaml_dict, top) ==
    CASE top = "trajectory_settings" -> yaml_dict.trj.keys
      [] top = "system_settings" -> yaml_dict.sysKeys
      [] top = "opt_settings" -> yaml_dict.optKeys
      [] top = "sapt_settings" -> yaml_dict.saptKeys
      [] OTHER -> {}

\* the document's value under a key path; the values of the resource and
\* chemistry settings are opaque and stand for themselves
DocValue(yaml_dict, top, sub) ==
    CASE top = "topology_path" -> yaml_dict.top
      [] top = "trajectory_paths" -> yaml_dict.trjs
      [] top = "selection_resid_num" -> yaml_dict.sel
      [] top = "int_pairs" -> yaml_dict.pairs
      [] top = "trajectory_settings" /\ sub = "" -> yaml_dict.trj
      [] top = "trajectory_settings" /\ sub = "start" -> yaml_dict.trj.start
      [] top = "trajectory_settings" /\ sub = "stop" -> yaml_dict.trj.stop
      [] top = "trajectory_settings" /\ sub = "step" -> yaml_dict.trj.step
      [] top = "system_settings" /\ sub = "" -> yaml_dict.sysKeys
      [] top = "opt_settings" /\ sub = "" -> yaml_dict.optKeys
      [] top = "sapt_settings" /\ sub = "" -> yaml_dict.saptKeys
      [] OTHER -> <<top, sub>>

\* The assignments run one after another from position i; the first lookup of
\* an absent key raises KeyError and leaves the earlier assignments in place.
RECURSIVE SaveLoop(_, _, _)
SaveLoop(self_saved, yaml_dict, i) ==
    IF i > Len(SaveOrder) THEN [out |-> OK, saved |-> self_saved]
    ELSE LET field == SaveOrder[i][1]
             top == SaveOrder[i][2]
             sub == SaveOrder[i][3]
         IN  IF top \notin yaml_dict.keys
             THEN [out |-> Raise("KeyError", "SaveParams", top, {}, "save"),
                   saved |-> self_saved]
             ELSE IF sub # "" /\ sub \notin SubKeys(yaml_dict, top)
             THEN [out |-> Raise("KeyError", "SaveParams", sub, {}, "save"),
                   saved |-> self_saved]
             ELSE SaveLoop([f \in (DOMAIN self_saved) \cup {field} |->
                               IF f = field THEN DocValue(yaml_dict, top, sub)
                               ELSE self_saved[f]],
                           yaml_dict, i + 1)

_save_params(self_saved, yaml_dict) == SaveLoop(self_saved, yaml_dict, 1)

\* --------------------------------------------------------------- load_input
\* A load that assigns the descriptor fields before it validates.
load_input_SaveFirst(self_type, self_saved, yaml_dict, world) ==
    LET v == _save_params(self_saved, yaml_dict)
        c == _check_inputs(self_type, yaml_dict, world)
        res(out, calls, q, pc, sv) ==
            [out |-> out, calls |-> calls, queried |-> q, pairsChecked |-> pc,
             saved |-> sv]
    IN  IF world.file = "unreadable"
        THEN res(Raise("InputError", "Load", "", {}, "open"), <<>>, <<>>, 0, self_saved)
        ELSE IF world.file = "malformed"
        THEN res(Raise("YAMLError", "Load", "", {}, "parse"), <<>>, <<>>, 0, self_saved)
        ELSE IF Failed(v.out)
        THEN res(v.out, <<"save">>, <<>>, 0, v.saved)
        ELSE res(c.out, <<"save">> \o c.calls, c.queried, c.pairsChecked, v.saved)

\* "except IOError or InputError" is "except IOError": the IOError of open()
\* becomes InputError, an InputError of a validator passes through unchanged,
\* and every other exception (YAMLError, AttributeError, NameError, TypeError,
\* ValueError, KeyError) reaches the caller as it is.
load_input(self_type, self_saved, yaml_dict, world) ==
    LET c == _check_inputs(self_type, yaml_dict, world)
        v == _save_params(self_saved, yaml_dict)
        res(out, calls, q, pc, sv) ==
            [out |-> out, calls |-> calls, queried |-> q, pairsChecked |-> pc,
             saved |-> sv]
    IN  IF world.file = "unreadable"
        THEN res(Raise("InputError", "Load", "", {}, "open"), <<>>, <<>>, 0, self_saved)
        ELSE IF world.file = "malformed"
        THEN res(Raise("YAMLError", "Load", "", {}, "parse"), <<>>, <<>>, 0, self_saved)
        ELSE IF Failed(c.out)
        THEN res(c.out, c.calls, c.queried, c.pairsChecked, self_saved)
        ELSE res(v.out, Append(c.calls, "save"), c.queried, c.pairsChecked, v.saved)

\* ------------------------------------------------------------------- state
VARIABLES
    _input_type,    \* self._input_type: "unset" until assigned
    saved,          \* the descriptor fields assigned so far: field -> value
    doc,            \* the decoded document the methods are called with
    world,          \* the file system and the structure provider
    op,             \* the method called last
    out,            \* what that call returned or raised
    calls,          \* the pipeline steps that call invoked, in order
    queried,        \* the residue ids that call queried, in order
    pairsChecked    \* the number of pairs that call examined

vars == <<_input_type, saved, doc, world, op, out, calls, queried, pairsChecked>>

\* ------------------------------------------------------------------ inputs
TrjKeySet == Range(TrjExtractOrder)
DockKeySet == Range(DockExtractOrder)

PairVals == {<<10, 20>>, <<10, 99>>, <<99, 20>>, <<10>>}
NonePairs == [none |-> TRUE, val |-> <<>>]
Pairs(p) == [none |-> FALSE, val |-> p]

DirNames == <<"d1.pdb", "d2.pdb", "d3.pdb", "d4.pdb">>
Dirs == {SubSeq(DirNames, 1, n) : n \in 0..MaxDir}

LoadVals == {"ok", "missing", "nodata", "valueerror"}

BaseWindow == [keys |-> TrjSetKeys, start |-> 0, stop |-> 2, step |-> 1]
BadWindow == [keys |-> TrjSetKeys, start |-> 1, stop |-> 1, step |-> 1]

BaseDoc ==
    [keys |-> TrjKeySet, top |-> "a.pdb", trjs |-> <<"a.dcd">>,
     dir |-> <<"d1.pdb">>, sel |-> <<10, 20>>, pairs |-> Pairs(<< <<10, 20>> >>),
     trj |-> BaseWindow, sysKeys |-> SysKeys, optKeys |-> OptKeys,
     saptKeys |-> SaptKeys]

BaseWorld == [file |-> "ok", load |-> "ok", frames |-> MaxFrames, badSel |-> {}]

In(d, w) == [doc |-> d, world |-> w]

\* every set of top-level keys, around a valid and an invalid window
SliceKeys ==
    {In([BaseDoc EXCEPT !.keys = k, !.dir = d, !.trj = w], BaseWorld) :
        k \in SUBSET TopKeys, d \in Dirs, w \in {BaseWindow, BadWindow}}

\* every set of keys inside the four settings blocks
SliceNested ==
    {In([BaseDoc EXCEPT !.keys = k, !.trj.keys = tk[1], !.sysKeys = tk[2],
                        !.optKeys = tk[3], !.saptKeys = tk[4]], BaseWorld) :
        k \in {TrjKeySet, DockKeySet},
        tk \in (SUBSET TrjSetKeys) \X (SUBSET SysKeys) \X (SUBSET OptKeys)
                 \X (SUBSET SaptKeys)}

\* every selection list and pair list, against every set of failing queries
SliceSel ==
    {In([BaseDoc EXCEPT !.keys = k, !.sel = s, !.pairs = p, !.trj = w],
        [BaseWorld EXCEPT !.badSel = b]) :
        k \in {TrjKeySet, DockKeySet},
        s \in SeqsUpTo(DeclIds, MaxSel),
        p \in {NonePairs} \cup {Pairs(q) : q \in SeqsUpTo(PairVals, MaxPairs)},
        b \in SUBSET DeclIds,
        w \in {BaseWindow, BadWindow}}

\* every window, against every frame count and with earlier steps failing
SliceWin ==
    {In([BaseDoc EXCEPT !.trj = [keys |-> TrjSetKeys, start |-> t[1],
                                 stop |-> t[2], step |-> t[3]],
                        !.pairs = p, !.sysKeys = y],
        [BaseWorld EXCEPT !.frames = n, !.badSel = b, !.load = l]) :
        t \in (0..MaxT) \X (0..MaxT) \X (0..MaxT),
        n \in 0..MaxFrames,
        p \in {Pairs(<< <<10, 20>> >>), Pairs(<< <<10, 99>> >>)},
        y \in {SysKeys, SysKeys \ {"time"}},
        b \in {{}, {20}},
        l \in LoadVals}

\* an input file that cannot be opened or decoded
SliceFile ==
    {In([BaseDoc EXCEPT !.keys = k], [BaseWorld EXCEPT !.file = f]) :
        k \in {TrjKeySet, DockKeySet, {}}, f \in {"unreadable", "malformed"}}

Inputs == SliceKeys \cup SliceNested \cup SliceSel \cup SliceWin \cup SliceFile

\* ------------------------------------------------------------------- Init
\* a reader object before any method ran: no attribute is assigned
Init ==
    /\ \E i \in Inputs : doc = i.doc /\ world = i.world
    /\ _input_type = "unset"
    /\ saved = <<>>
    /\ op = "init"
    /\ out = OK
    /\ calls = <<>>
    /\ queried = <<>>
    /\ pairsChecked = 0

\* ---------------------------------------------------------------- actions
\* reader._check_type(doc)
CheckType ==
    LET r == _check_type(_input_type, doc)
    IN  /\ op' = "_check_type"
        /\ out' = r.out
        /\ _input_type' = r.type
        /\ calls' = <<>>
        /\ queried' = <<>>
        /\ pairsChecked' = 0
        /\ UNCHANGED <<saved, doc, world>>

\* reader.load_input(path), also what InputReader(path) runs
LoadInput ==
    LET r == load_input(_input_type, saved, doc, world)
    IN  /\ op' = "load_input"
        /\ out' = r.out
        /\ calls' = r.calls
        /\ queried' = r.queried
        /\ pairsChecked' = r.pairsChecked
        /\ saved' = r.saved
        /\ UNCHANGED <<_input_type, doc, world>>

\* reader._check_trj_inputs(doc)
CheckTrjInputs ==
    LET r == _check_trj_inputs(doc, world)
    IN  /\ op' = "_check_trj_inputs"
        /\ out' = r.out
        /\ calls' = r.calls
        /\ queried' = r.queried
        /\ pairsChecked' = r.pairsChecked
        /\ UNCHANGED <<_input_type, saved, doc, world>>

\* reader._check_docking_inputs(doc)
CheckDockingInputs ==
    LET r == _check_docking_inputs(doc, world)
    IN  /\ op' = "_check_docking_inputs"
        /\ out' = r.out
        /\ calls' = r.calls
        /\ queried' = r.queried
        /\ pairsChecked' = r.pairsChecked
        /\ UNCHANGED <<_input_type, saved, doc, world>>

\* InputReader._check_selections(universe, ag_sel, ag_pair) on a loaded
\* structure; a document without int_pairs passes None
CheckSelections ==
    /\ world.load = "ok"
    /\ "selection_resid_num" \in doc.keys
    /\ LET r == _check_selections(Universe(world), doc.sel,
                    IF "int_pairs" \in doc.keys THEN doc.pairs ELSE NonePairs)
       IN  /\ op' = "_check_selections"
           /\ out' = r.out
           /\ calls' = <<"selections">>
           /\ queried' = r.queried
           /\ pairsChecked' = r.pairsChecked
    /\ UNCHANGED <<_input_type, saved, doc, world>>

\* InputReader._check_trj_settings(universe, trj_settings) on a loaded structure
CheckTrjSettings ==
    /\ world.load = "ok"
    /\ "trajectory_settings" \in doc.keys
    /\ op' = "_check_trj_settings"
    /\ out' = _check_trj_settings(Universe(world), doc.trj)
    /\ calls' = <<"trj_settings">>
    /\ queried' = <<>>
    /\ pairsChecked' = 0
    /\ UNCHANGED <<_input_type, saved, doc, world>>

Next ==
    \/ CheckType
    \/ LoadInput
    \/ CheckTrjInputs
    \/ CheckDockingInputs
    \/ CheckSelections
    \/ CheckTrjSettings

Spec == Init /\ [][Next]_vars

\* ------------------------------------------------- vocabulary of the claims
IsTrajectoryDoc(d) == "topology_path" \in d.keys /\ "topology_directory" \notin d.keys
IsDockingDoc(d) == "topology_directory" \in d.keys

NestedComplete(d) ==
    /\ TrjSetKeys \subseteq d.trj.keys
    /\ SysKeys \subseteq d.sysKeys
    /\ OptKeys \subseteq d.optKeys
    /\ SaptKeys \subseteq d.saptKeys

SelectionsResolve(d, w) == Range(d.sel) \cap w.badSel = {}

PairGood(d, pair) ==
    Len(pair) = 2 /\ pair[1] \in Range(d.sel) /\ pair[2] \in Range(d.sel)

PairsGood(d) == \A j \in 1..Len(d.pairs.val) : PairGood(d, d.pairs.val[j])

\* some pair of two members names a residue id the selection list lacks
HasUndeclaredMember(d) ==
    /\ ~d.pairs.none
    /\ \E j \in 1..Len(d.pairs.val) :
          /\ Len(d.pairs.val[j]) = 2
          /\ ~PairGood(d, d.pairs.val[j])

WindowGood(d, w) ==
    /\ TrjSetKeys \subseteq d.trj.keys
    /\ d.trj.step # 0
    /\ d.trj.start < d.trj.stop
    /\ d.trj.step < d.trj.stop
    /\ d.trj.stop <= w.frames

ValidTrajectory(d, w) ==
    /\ w.file = "ok" /\ w.load = "ok"
    /\ IsTrajectoryDoc(d)
    /\ TrjKeySet \subseteq d.keys
    /\ NestedComplete(d)
    /\ SelectionsResolve(d, w)
    /\ ~d.pairs.none /\ PairsGood(d)
    /\ WindowGood(d, w)

ValidDockingNoPairs(d, w) ==
    /\ w.file = "ok" /\ w.load = "ok"
    /\ IsDockingDoc(d)
    /\ "int_pairs" \notin d.keys
    /\ (DockKeySet \ {"int_pairs"}) \subseteq d.keys
    /\ NestedComplete(d)
    /\ SelectionsResolve(d, w)

\* the descriptor that copies every field of the document verbatim
ExpectedSaved(d) ==
    [f \in FieldNames |->
        LET i == CHOOSE n \in 1..Len(SaveOrder) : SaveOrder[n][1] = f
        IN  DocValue(d, SaveOrder[i][2], SaveOrder[i][3])]

Invoked(step) == step \in Range(calls)

\* C1: a load_input call ends either with every descriptor field saved or
\* with an InputError; no other kind of exception reaches the caller.
C1_TwoOutcomes ==
    op = "load_input" =>
        \/ out.kind = "ok" /\ DOMAIN saved = FieldNames
        \/ out.kind = "InputError"

\* C2: load_input of a valid Trajectory-mode document succeeds, the mode is
\* Trajectory and every saved field equals the document's value.
C2_ValidTrajectoryLoads ==
    (op = "load_input" /\ ValidTrajectory(doc, world)) =>
        /\ out.kind = "ok"
        /\ _input_type = "trajectory"
        /\ saved = ExpectedSaved(doc)

\* C3: validation of a valid Docking-mode document without int_pairs
\* succeeds, and the loaded reader's mode is Docking.
C3_DockingWithoutPairsLoads ==
    (op \in {"load_input", "_check_docking_inputs"}
        /\ ValidDockingNoPairs(doc, world)) =>
        /\ out.kind = "ok"
        /\ op = "load_input" => _input_type = "docking"

\* C4: mode detection yields Docking exactly when topology_directory is
\* present, Trajectory exactly when topology_path is present without it, and
\* fails with the mode-detection error exactly when both are absent; the mode
\* read back is the detected one.
C4_ModeDetection ==
    op = "_check_type" =>
        /\ IsDockingDoc(doc) <=> (out.kind = "ok" /\ _input_type = "docking")
        /\ IsTrajectoryDoc(doc) <=> (out.kind = "ok" /\ _input_type = "trajectory")
        /\ (~IsDockingDoc(doc) /\ ~IsTrajectoryDoc(doc))
              <=> (out.kind = "InputError" /\ out.site = "ModeDetection")

\* the trajectory-settings validator was invoked and did not raise
WindowAccepted == Invoked("trj_settings") /\ out.by # "trj_settings"

\* C5: every window the trajectory-settings validator accepts has step # 0,
\* start < stop, step < stop and stop <= frame count; so a window with
\* step = 0, or with stop beyond the frame count, is never accepted.
C5_AcceptedWindowInvariants ==
    WindowAccepted => WindowGood(doc, world)

C5_Witness ==
    op = "_check_trj_inputs" /\ WindowAccepted /\ doc.trj.stop = world.frames

\* C6 as stated: the Trajectory-mode validator fails with InvalidRangeError
\* on every document with start >= stop, whatever the other fields are (here
\* even granted that every key is present and the structure loads).
C6_InvalidRangeRegardless ==
    (op = "_check_trj_inputs"
        /\ IsTrajectoryDoc(doc)
        /\ TrjKeySet \subseteq doc.keys
        /\ NestedComplete(doc)
        /\ world.load = "ok"
        /\ doc.trj.start >= doc.trj.stop) =>
        out.site = "InvalidRange"

\* C6 amended: whenever the pipeline reaches the trajectory-settings
\* validator with start, step and stop present and start >= stop, the call
\* fails with InvalidRangeError (an InputError), whatever step and the frame
\* count are.
C6_InvalidRangeWhenReached ==
    (Invoked("trj_settings")
        /\ TrjSetKeys \subseteq doc.trj.keys
        /\ doc.trj.start >= doc.trj.stop) =>
        /\ out.kind = "InputError"
        /\ out.site = "InvalidRange"
        /\ out.by = "trj_settings"

C6_Witness ==
    /\ op = "_check_trj_inputs"
    /\ doc.trj.start >= doc.trj.stop
    /\ doc.trj.step = 0
    /\ out.site = "InvalidRange"

\* C7: in both modes a document that is valid except for a pair naming an
\* undeclared residue id is rejected with PairIntegrityError naming such a
\* member.
C7_UndeclaredMemberRejected ==
    (op \in {"_check_trj_inputs", "_check_docking_inputs"}
        /\ (op = "_check_trj_inputs" => TrjKeySet \subseteq doc.keys)
        /\ (op = "_check_docking_inputs" => DockKeySet \subseteq doc.keys)
        /\ world.load = "ok"
        /\ NestedComplete(doc)
        /\ SelectionsResolve(doc, world)
        /\ HasUndeclaredMember(doc)
        /\ \A j \in 1..Len(doc.pairs.val) : Len(doc.pairs.val[j]) = 2) =>
        /\ out.kind = "InputError"
        /\ out.site = "PairMember"
        /\ out.ids # {}
        /\ out.ids \cap Range(doc.sel) = {}

\* the steps of the Trajectory-mode pipeline, in order
TrjOrder ==
    <<"extract", "load", "selections", "sys_settings", "trj_settings",
      "opt_sapt_settings">>

\* whether a step of the pipeline succeeds on the document, stated from the
\* document and the environment alone
StepPasses(step, d, w) ==
    CASE step = "extract" -> TrjKeySet \subseteq d.keys
      [] step = "load" -> w.load = "ok"
      [] step = "selections" ->
            SelectionsResolve(d, w) /\ (d.pairs.none \/ PairsGood(d))
      [] step = "sys_settings" -> SysKeys \subseteq d.sysKeys
      [] step = "trj_settings" -> WindowGood(d, w)
      [] OTHER -> FALSE

\* the validation steps of the call, without the assembler's
CheckCalls == SelectSeq(calls, LAMBDA c : c # "save")

\* a call of the Trajectory-mode orchestrator, directly or through load_input
TrjPipelineRan ==
    \/ op = "_check_trj_inputs"
    \/ op = "load_input" /\ _input_type = "trajectory" /\ world.file = "ok"

\* C8: _save_params starts only after the whole validation pipeline has
\* returned, and after a load_input call that ends in an error the reader
\* holds no descriptor field; the fields are all assigned or none is.
C8_NoPartialDescriptor ==
    /\ DOMAIN saved \in {{}, FieldNames}
    /\ (op = "load_input" /\ Failed(out)) => DOMAIN saved = {}
    /\ Invoked("save") =>
          /\ calls[Len(calls)] = "save"
          /\ Len(calls) > 1
          /\ calls[Len(calls) - 1] = "opt_sapt_settings"

C8_Witness ==
    /\ op = "load_input"
    /\ Failed(out)
    /\ out.by = "opt_sapt_settings"
    /\ Len(calls) = Len(TrjOrder)
    /\ DOMAIN saved = {}

\* C9: the Trajectory-mode orchestrator invokes extraction, structure
\* loading, the selection, system-settings, trajectory-settings and
\* compute-settings validators in that order; a step is invoked only if all
\* earlier steps succeeded, a missing top-level key is reported by the
\* extraction alone, and the error reported is that of the first failing
\* step, the last one invoked.
C9_TrajectoryOrder ==
    TrjPipelineRan =>
        /\ Len(CheckCalls) >= 1
        /\ Len(CheckCalls) <= Len(TrjOrder)
        /\ CheckCalls = SubSeq(TrjOrder, 1, Len(CheckCalls))
        /\ \A i \in 1..(Len(CheckCalls) - 1) : StepPasses(CheckCalls[i], doc, world)
        /\ Len(CheckCalls) < Len(TrjOrder) =>
              /\ ~StepPasses(CheckCalls[Len(CheckCalls)], doc, world)
              /\ Failed(out)
        /\ Failed(out) => out.by = CheckCalls[Len(CheckCalls)]
        /\ ~(TrjKeySet \subseteq doc.keys) =>
              /\ CheckCalls = <<"extract">>
              /\ out.kind = "InputError"
              /\ out.site = "MissingKey"
              /\ out.key = FirstMissing(TrjExtractOrder, doc.keys, 1)

C9_Witness ==
    /\ op = "_check_trj_inputs"
    /\ out.by = "sys_settings"
    /\ ~WindowGood(doc, world)
    /\ ~Invoked("trj_settings")

\* the pair list _check_selections was called with
PassedPairs == IF "int_pairs" \in doc.keys THEN doc.pairs ELSE NonePairs

\* position of the first selection whose query fails, 0 when none does
FirstBadSel ==
    IF SelectionsResolve(doc, world) THEN 0
    ELSE CHOOSE i \in 1..Len(doc.sel) :
            /\ doc.sel[i] \in world.badSel
            /\ \A j \in 1..(i - 1) : doc.sel[j] \notin world.badSel

\* C10 as stated: the residue query is issued for every declared selection,
\* also for those after a failing one.
C10_AllSelectionsQueried ==
    Invoked("selections") => queried = doc.sel

\* C10 amended: the selections are queried in order up to and including the
\* first one whose query fails, which is reported as SelectionError naming
\* it, and none after it is queried; pairs are examined only when no
\* selection failed, in order up to and including the first failing pair.
C10_HaltsAtFirstFailure ==
    Invoked("selections") =>
        /\ FirstBadSel = 0 => queried = doc.sel
        /\ FirstBadSel > 0 =>
              /\ queried = SubSeq(doc.sel, 1, FirstBadSel)
              /\ out.kind = "InputError" /\ out.site = "Selection"
              /\ out.ids = {doc.sel[FirstBadSel]}
              /\ pairsChecked = 0
        /\ pairsChecked > 0 =>
              /\ FirstBadSel = 0
              /\ ~PassedPairs.none
              /\ pairsChecked <= Len(PassedPairs.val)
              /\ \A j \in 1..(pairsChecked - 1) : PairGood(doc, PassedPairs.val[j])
              /\ pairsChecked < Len(PassedPairs.val) =>
                    /\ ~PairGood(doc, PassedPairs.val[pairsChecked])
                    /\ out.by = "selections"
                    /\ out.site \in {"PairArity", "PairMember"}
        /\ (FirstBadSel = 0 /\ ~PassedPairs.none /\ Len(PassedPairs.val) > 0) =>
              pairsChecked > 0

C10_Witness ==
    /\ Invoked("selections")
    /\ out.site = "Selection"
    /\ Len(queried) < Len(doc.sel)

====
